---- MODULE Spec2Model ----
(***************************************************************************)
(* Model of the Eq interning table of package intern (eq.go): the global   *)
(* state `eq` with its forward index (string -> symbol), its reverse index *)
(* (symbol -> string, slot 0 reserved) and its mutex, and the operations   *)
(* NewEq, NewEqMulti, Eq.String and ForgetAllEqs as run by concurrent      *)
(* goroutines.                                                             *)
(*                                                                         *)
(* Strings are tuples of byte values, so string equality is byte-exact.    *)
(* The reverse index is a Go slice: slot k of the slice is element k+1 of  *)
(* the TLA+ sequence, and len(reverse) is Len(reverse).                    *)
(***************************************************************************)
EXTENDS Integers, Sequences, FiniteSets, TLC

\* Number of goroutines using the table.
NumThreads == 2

\* Longest argument list of NewEqMulti.
MaxBatch == 3

Threads == 1..NumThreads

\* The input strings: "", "a", "A" (as bytes).
Strings == {<<>>, <<97>>, <<65>>}

\* The string stored in the reserved slot 0 of the reverse index.
Placeholder == <<>>

\* Handle values a caller may present: 0, every value the table can mint,
\* and one value beyond the largest table.
Handles == 0..(Cardinality(Strings) + 1)

\* The argument lists of NewEqMulti.
Batches == UNION {[1..n -> Strings] : n \in 0..MaxBatch}

NoThread == 0

VARIABLES
    forward,    \* eq's forward index: function from interned strings to symbols
    reverse,    \* eq's reverse index: sequence of strings, slot 0 first
    mu,         \* eq's mutex: the goroutine holding it, or NoThread
    pc,         \* pc[t]: the call goroutine t is in (op) and its position in it (at)
    str,        \* str[t]: string argument or string result of t's call
    sym,        \* sym[t]: symbol argument or symbol result of t's call
    key,        \* key[t]: the string t's assignSymbol call was given
    err,        \* err[t]: "nil", "internal" (assignSymbol error) or "invalid" (toString panic)
    strs,       \* strs[t]: the strings of t's NewEqMulti call
    syms,       \* syms[t]: the symbols t's NewEqMulti call has collected
    snap,       \* history: the indices as they were when the running NewEqMulti took the mutex
    minted,     \* history: <<string, symbol>> pairs returned by NewEq/NewEqMulti in this epoch, in order
    old,        \* history: a <<string, symbol>> pair returned before some ForgetAllEqs (at most one is tracked)
    test,       \* the variables of the marshalling test (TestEqMarshalJSON)
    boot        \* history: the indices as init left them

table == <<forward, reverse>>
locals == <<str, sym, key, err, strs, syms>>
vars == <<forward, reverse, mu, pc, str, sym, key, err, strs, syms, snap, minted, old, test, boot>>

Range(f) == {f[x] : x \in DOMAIN f}

\* len(reverse) and reverse[k] of the Go slice.
len(rev) == Len(rev)
At(rev, k) == rev[k + 1]

\* strings.ToLower on ASCII bytes.
ToLower(s) == [i \in DOMAIN s |-> IF s[i] \in 65..90 THEN s[i] + 32 ELSE s[i]]

Idle == [op |-> "idle", at |-> "idle"]

Pos(o, a) == [op |-> o, at |-> a]

----------------------------------------------------------------------------
(* state.forgetAll: fresh indices. *)

EmptyForward == [x \in {} |-> 0]

FreshReverse == <<Placeholder>>

NoSnap == [forward |-> EmptyForward, reverse |-> <<>>]

TestStart == [stage |-> "start", ozChars |-> <<>>, iSyms |-> <<>>, b |-> <<>>,
              forgot |-> FALSE, oSyms |-> <<>>, checked |-> 0]

\* Variant: init leaves the reverse index without its reserved slot 0.
Init_noSlot0 ==
    /\ forward = EmptyForward
    /\ reverse = <<>>
    /\ mu = NoThread
    /\ pc = [t \in Threads |-> Idle]
    /\ str = [t \in Threads |-> <<>>]
    /\ sym = [t \in Threads |-> 0]
    /\ key = [t \in Threads |-> <<>>]
    /\ err = [t \in Threads |-> "nil"]
    /\ strs = [t \in Threads |-> <<>>]
    /\ syms = [t \in Threads |-> <<>>]
    /\ snap = NoSnap
    /\ minted = <<>>
    /\ old = {}
    /\ test = TestStart
    /\ boot = [forward |-> forward, reverse |-> reverse]

\* func init() { eq.forgetAll() }
Init ==
    /\ forward = EmptyForward
    /\ reverse = FreshReverse
    /\ mu = NoThread
    /\ pc = [t \in Threads |-> Idle]
    /\ str = [t \in Threads |-> <<>>]
    /\ sym = [t \in Threads |-> 0]
    /\ key = [t \in Threads |-> <<>>]
    /\ err = [t \in Threads |-> "nil"]
    /\ strs = [t \in Threads |-> <<>>]
    /\ syms = [t \in Threads |-> <<>>]
    /\ snap = NoSnap
    /\ minted = <<>>
    /\ old = {}
    /\ test = TestStart
    /\ boot = [forward |-> forward, reverse |-> reverse]

\* A goroutine that called an operation while another goroutine held the
\* mutex is parked in Lock(); it has done nothing of the operation yet.
Blocked == [op |-> "call", at |-> "Lock"]

\* Goroutine t can enter an operation: it is between calls, or parked in
\* the Lock() of one.
Entering(t) == pc[t] = Idle \/ pc[t] = Blocked

\* A call returns to its caller: the goroutine's locals are dead.
Return(t) ==
    /\ pc' = [pc EXCEPT ![t] = Idle]
    /\ str' = [str EXCEPT ![t] = <<>>]
    /\ sym' = [sym EXCEPT ![t] = 0]
    /\ key' = [key EXCEPT ![t] = <<>>]
    /\ err' = [err EXCEPT ![t] = "nil"]
    /\ strs' = [strs EXCEPT ![t] = <<>>]
    /\ syms' = [syms EXCEPT ![t] = <<>>]

\* Lock(): blocks until the mutex is free.
Lock(t) ==
    /\ mu = NoThread
    /\ mu' = t

\* Unlock()
Unlock(t) == mu' = NoThread

----------------------------------------------------------------------------
(* state.assignSymbol(s, false), run step by step by a goroutine. *)

\* A hit whose symbol the reverse index does not map back to s is an
\* internal inconsistency.
Consistent(fwd, rev, s) ==
    /\ fwd[s] >= 1
    /\ fwd[s] < len(rev)
    /\ At(rev, fwd[s]) = s

\* Look s up in the forward index.
assignSymbol_lookup(t) ==
    /\ pc[t].at = "assignSymbol"
    /\ IF key[t] \in DOMAIN forward
       THEN /\ sym' = [sym EXCEPT ![t] = forward[key[t]]]
            /\ err' = [err EXCEPT ![t] =
                          IF Consistent(forward, reverse, key[t]) THEN "nil" ELSE "internal"]
            /\ pc' = [pc EXCEPT ![t].at = "assignSymbol_done"]
       ELSE /\ pc' = [pc EXCEPT ![t].at = "assignSymbol_append"]
            /\ UNCHANGED <<sym, err>>
    /\ UNCHANGED <<table, mu, str, key, strs, syms, snap, minted, old, test, boot>>

\* Absent: h = len(reverse).
NextSymbol(rev) == len(rev)

\* Absent: append s to the reverse index at slot h.
assignSymbol_append(t) ==
    /\ pc[t].at = "assignSymbol_append"
    /\ sym' = [sym EXCEPT ![t] = NextSymbol(reverse)]
    /\ reverse' = Append(reverse, key[t])
    /\ pc' = [pc EXCEPT ![t].at = "assignSymbol_insert"]
    /\ UNCHANGED <<forward, mu, str, key, err, strs, syms, snap, minted, old, test, boot>>

Insert(fwd, s, k) == [x \in DOMAIN fwd \cup {s} |-> IF x = s THEN k ELSE fwd[x]]

\* Absent: forward[s] = h.
assignSymbol_insert(t) ==
    /\ pc[t].at = "assignSymbol_insert"
    /\ forward' = Insert(forward, key[t], sym[t])
    /\ pc' = [pc EXCEPT ![t].at = "assignSymbol_done"]
    /\ UNCHANGED <<reverse, mu, locals, snap, minted, old, test, boot>>

\* The whole of assignSymbol on given indices.
assignSymbol(fwd, rev, s) ==
    IF s \in DOMAIN fwd
    THEN [sym |-> fwd[s],
          err |-> IF Consistent(fwd, rev, s) THEN "nil" ELSE "internal",
          forward |-> fwd, reverse |-> rev]
    ELSE [sym |-> NextSymbol(rev), err |-> "nil",
          forward |-> Insert(fwd, s, NextSymbol(rev)), reverse |-> Append(rev, s)]

----------------------------------------------------------------------------
(* func NewEq(s string) Eq *)

\* Variant: NewEq interns the lower-cased string.
NewEq_Lock_fold(t, s) ==
    /\ Entering(t)
    /\ Lock(t)
    /\ pc' = [pc EXCEPT ![t] = Pos("NewEq", "assignSymbol")]
    /\ str' = [str EXCEPT ![t] = s]
    /\ key' = [key EXCEPT ![t] = ToLower(s)]
    /\ UNCHANGED <<table, sym, err, strs, syms, snap, minted, old, test, boot>>

\* Variant: NewEq calls assignSymbol without taking the mutex.
NewEq_Lock_noLock(t, s) ==
    /\ Entering(t)
    /\ pc' = [pc EXCEPT ![t] = Pos("NewEq", "assignSymbol")]
    /\ str' = [str EXCEPT ![t] = s]
    /\ key' = [key EXCEPT ![t] = s]
    /\ UNCHANGED <<table, mu, sym, err, strs, syms, snap, minted, old, test, boot>>

\* Goroutine t calls NewEq(s): st.Lock(), then the call of
\* st.assignSymbol(s, false).  (A caller still waiting for the mutex has
\* done nothing yet: the call and the acquisition are one step.)
NewEq_Lock(t, s) ==
    /\ Entering(t)
    /\ Lock(t)
    /\ pc' = [pc EXCEPT ![t] = Pos("NewEq", "assignSymbol")]
    /\ str' = [str EXCEPT ![t] = s]
    /\ key' = [key EXCEPT ![t] = s]
    /\ UNCHANGED <<table, sym, err, strs, syms, snap, minted, old, test, boot>>

\* Variant: NewEq returns a zero-based symbol.
NewEq_result_zeroBased(e, k) ==
    IF e # "nil"
    THEN [panic |-> TRUE, eq |-> 0]
    ELSE [panic |-> FALSE, eq |-> k - 1]

\* if err != nil { panic(...) }; return Eq(sym)
NewEq_result(e, k) ==
    IF e # "nil"
    THEN [panic |-> TRUE, eq |-> 0]
    ELSE [panic |-> FALSE, eq |-> k]

\* The history gains a returned pair, once.
Mint(hist, s, k) == IF <<s, k>> \in Range(hist) THEN hist ELSE Append(hist, <<s, k>>)

\* Variant: NewEq returns without the deferred st.Unlock().
NewEq_Unlock_held(t) ==
    /\ pc[t] = Pos("NewEq", "assignSymbol_done")
    /\ mu' = mu
    /\ minted' = (IF NewEq_result(err[t], sym[t]).panic THEN minted
                  ELSE Mint(minted, str[t], NewEq_result(err[t], sym[t]).eq))
    /\ Return(t)
    /\ UNCHANGED <<table, snap, old, test, boot>>

\* The result is evaluated, the deferred st.Unlock() runs, NewEq returns.
NewEq_Unlock(t) ==
    /\ pc[t] = Pos("NewEq", "assignSymbol_done")
    /\ Unlock(t)
    /\ minted' = (IF NewEq_result(err[t], sym[t]).panic THEN minted
                  ELSE Mint(minted, str[t], NewEq_result(err[t], sym[t]).eq))
    /\ Return(t)
    /\ UNCHANGED <<table, snap, old, test, boot>>

\* Variant: NewEq interns the lower-cased string.
NewEqAlone_fold(fwd, rev, s) ==
    LET a == assignSymbol(fwd, rev, ToLower(s))
    IN  [result |-> NewEq_result(a.err, a.sym), forward |-> a.forward, reverse |-> a.reverse]

\* NewEq run alone on given indices: its result and the indices it leaves.
NewEqAlone(fwd, rev, s) ==
    LET a == assignSymbol(fwd, rev, s)
    IN  [result |-> NewEq_result(a.err, a.sym), forward |-> a.forward, reverse |-> a.reverse]

\* for i, s := range strs { syms[i] = intern.NewEq(s) }: NewEq called once
\* per string, in order, with nothing in between.
RECURSIVE NewEqEach(_, _, _)
NewEqEach(fwd, rev, ss) ==
    IF ss = <<>>
    THEN [results |-> <<>>, forward |-> fwd, reverse |-> rev]
    ELSE LET first == NewEqAlone(fwd, rev, Head(ss))
             rest == NewEqEach(first.forward, first.reverse, Tail(ss))
         IN  [results |-> <<first.result>> \o rest.results,
              forward |-> rest.forward, reverse |-> rest.reverse]

----------------------------------------------------------------------------
(* func NewEqMulti(ss []string) []Eq: one acquisition of the mutex, then *)
(* assignSymbol for each string in order.                                 *)

\* Goroutine t calls NewEqMulti(ss) and takes the mutex; the loop starts
\* with the first string, or ends at once on an empty list.
NewEqMulti_Lock(t, ss) ==
    /\ Entering(t)
    /\ Lock(t)
    /\ strs' = [strs EXCEPT ![t] = ss]
    /\ snap' = [forward |-> forward, reverse |-> reverse]
    /\ IF ss = <<>>
       THEN /\ pc' = [pc EXCEPT ![t] = Pos("NewEqMulti", "return")]
            /\ key' = key
       ELSE /\ pc' = [pc EXCEPT ![t] = Pos("NewEqMulti", "assignSymbol")]
            /\ key' = [key EXCEPT ![t] = ss[1]]
    /\ UNCHANGED <<table, str, sym, err, syms, minted, old, test, boot>>

\* The symbol of one string is stored; the loop goes on to the next string,
\* or ends (after the last string, or with the panic on an error).
NewEqMulti_next(t) ==
    /\ pc[t] = Pos("NewEqMulti", "assignSymbol_done")
    /\ IF err[t] # "nil"
       THEN /\ pc' = [pc EXCEPT ![t].at = "return"]
            /\ UNCHANGED <<key, syms>>
       ELSE /\ syms' = [syms EXCEPT ![t] = Append(syms[t], sym[t])]
            /\ IF Len(syms[t]) + 1 < Len(strs[t])
               THEN /\ key' = [key EXCEPT ![t] = strs[t][Len(syms[t]) + 2]]
                    /\ pc' = [pc EXCEPT ![t].at = "assignSymbol"]
               ELSE /\ key' = key
                    /\ pc' = [pc EXCEPT ![t].at = "return"]
    /\ UNCHANGED <<table, mu, str, sym, err, strs, snap, minted, old, test, boot>>

RECURSIVE MintAll(_, _, _)
MintAll(hist, ss, ks) ==
    IF ss = <<>> \/ ks = <<>> THEN hist
    ELSE MintAll(Mint(hist, Head(ss), Head(ks)), Tail(ss), Tail(ks))

\* The unlock, and the return of the collected symbols.
NewEqMulti_Unlock(t) ==
    /\ pc[t] = Pos("NewEqMulti", "return")
    /\ Unlock(t)
    /\ minted' = (IF err[t] # "nil" THEN minted ELSE MintAll(minted, strs[t], syms[t]))
    /\ snap' = NoSnap
    /\ Return(t)
    /\ UNCHANGED <<table, old, test, boot>>

\* The whole of NewEqMulti on given indices.
RECURSIVE NewEqMultiAlone(_, _, _)
NewEqMultiAlone(fwd, rev, ss) ==
    IF ss = <<>>
    THEN [syms |-> <<>>, err |-> "nil", forward |-> fwd, reverse |-> rev]
    ELSE LET first == assignSymbol(fwd, rev, Head(ss))
             rest == NewEqMultiAlone(first.forward, first.reverse, Tail(ss))
         IN  IF first.err # "nil"
             THEN [syms |-> <<>>, err |-> first.err, forward |-> first.forward, reverse |-> first.reverse]
             ELSE [syms |-> <<first.sym>> \o rest.syms, err |-> rest.err,
                   forward |-> rest.forward, reverse |-> rest.reverse]

----------------------------------------------------------------------------
(* func (s Eq) String() string { return eq.toString(uint64(s), "Eq") } *)

\* Goroutine t calls Eq(k).String(); toString takes the mutex.
toString_Lock(t, k) ==
    /\ Entering(t)
    /\ Lock(t)
    /\ pc' = [pc EXCEPT ![t] = Pos("String", "toString")]
    /\ sym' = [sym EXCEPT ![t] = k]
    /\ UNCHANGED <<table, str, key, err, strs, syms, snap, minted, old, test, boot>>

\* Variant: the handle is only checked against the length.
ValidHandle_noZero(rev, k) == k < len(rev)

\* h == 0 or h >= len(reverse) is an invalid handle.
ValidHandle(rev, k) == k # 0 /\ k < len(rev)

\* The whole of toString on a given reverse index.
toString(rev, k) ==
    IF ValidHandle(rev, k)
    THEN [panic |-> FALSE, str |-> At(rev, k)]
    ELSE [panic |-> TRUE, str |-> <<>>]

toString_read(t) ==
    /\ pc[t] = Pos("String", "toString")
    /\ IF toString(reverse, sym[t]).panic
       THEN /\ err' = [err EXCEPT ![t] = "invalid"]
            /\ str' = str
       ELSE /\ str' = [str EXCEPT ![t] = toString(reverse, sym[t]).str]
            /\ err' = err
    /\ pc' = [pc EXCEPT ![t].at = "return"]
    /\ UNCHANGED <<table, mu, sym, key, strs, syms, snap, minted, old, test, boot>>

\* The unlock runs on the normal return and on the panic alike.
toString_Unlock(t) ==
    /\ pc[t] = Pos("String", "return")
    /\ Unlock(t)
    /\ Return(t)
    /\ UNCHANGED <<table, snap, minted, old, test, boot>>

----------------------------------------------------------------------------
(* func ForgetAllEqs() *)

\* Variant: ForgetAllEqs calls forgetAll without taking the mutex.
ForgetAllEqs_Lock_noLock(t) ==
    /\ Entering(t)
    /\ pc' = [pc EXCEPT ![t] = Pos("ForgetAllEqs", "forgetAll")]
    /\ UNCHANGED <<table, mu, locals, snap, minted, old, test, boot>>

\* Variant: ForgetAllEqs takes and releases the mutex without calling forgetAll.
ForgetAllEqs_Lock_skip(t) ==
    /\ Entering(t)
    /\ Lock(t)
    /\ pc' = [pc EXCEPT ![t] = Pos("ForgetAllEqs", "forgetAll_done")]
    /\ UNCHANGED <<table, locals, snap, minted, old, test, boot>>

\* Goroutine t calls ForgetAllEqs(): eq.Lock(), then the call of eq.forgetAll()
ForgetAllEqs_Lock(t) ==
    /\ Entering(t)
    /\ Lock(t)
    /\ pc' = [pc EXCEPT ![t] = Pos("ForgetAllEqs", "forgetAll")]
    /\ UNCHANGED <<table, locals, snap, minted, old, test, boot>>

\* forgetAll: the forward index is replaced by an empty one ...
forgetAll_forward(t) ==
    /\ pc[t].at = "forgetAll"
    /\ forward' = EmptyForward
    /\ pc' = [pc EXCEPT ![t].at = "forgetAll_reverse"]
    /\ UNCHANGED <<reverse, mu, locals, snap, minted, old, test, boot>>

\* ... and the reverse index by one that holds only slot 0.
forgetAll_reverse(t) ==
    /\ pc[t].at = "forgetAll_reverse"
    /\ reverse' = FreshReverse
    /\ pc' = [pc EXCEPT ![t].at = "forgetAll_done"]
    /\ UNCHANGED <<forward, mu, locals, snap, minted, old, test, boot>>

\* The pairs minted before a ForgetAllEqs are old; one of them (or the one
\* tracked so far) is tracked from here on.
Stale(hist, o) == {o} \cup {{p} : p \in Range(hist)}

\* eq.Unlock(), and the return: a new epoch starts.
ForgetAllEqs_Unlock(t) ==
    /\ pc[t] = Pos("ForgetAllEqs", "forgetAll_done")
    /\ Unlock(t)
    /\ old' \in Stale(minted, old)
    /\ minted' = <<>>
    /\ Return(t)
    /\ UNCHANGED <<table, snap, test, boot>>

----------------------------------------------------------------------------

\* (NewEqMulti_Lock needs the mutex free: its batches are only enumerated
\* where it is.)
Next ==
    \E t \in Threads :
        \/ \E s \in Strings : NewEq_Lock(t, s)
        \/ assignSymbol_lookup(t)
        \/ assignSymbol_append(t)
        \/ assignSymbol_insert(t)
        \/ NewEq_Unlock(t)
        \/ mu = NoThread /\ \E ss \in Batches : NewEqMulti_Lock(t, ss)
        \/ NewEqMulti_next(t)
        \/ NewEqMulti_Unlock(t)
        \/ \E k \in Handles : toString_Lock(t, k)
        \/ toString_read(t)
        \/ toString_Unlock(t)
        \/ ForgetAllEqs_Lock(t)
        \/ forgetAll_forward(t)
        \/ forgetAll_reverse(t)
        \/ ForgetAllEqs_Unlock(t)

Spec == Init /\ [][Next]_vars

----------------------------------------------------------------------------
(* Progress.  A goroutine that calls an operation while the mutex is held  *)
(* parks in Lock() until it gets the mutex.  The Go scheduler runs every   *)
(* runnable goroutine (weak fairness of the steps inside a critical        *)
(* section), and a mutex that is released again and again is eventually    *)
(* handed to a parked goroutine (sync.Mutex starvation mode: strong        *)
(* fairness of the acquisition).                                           *)

\* Goroutine t calls an operation and finds the mutex held.
Park(t) ==
    /\ pc[t] = Idle
    /\ mu # NoThread
    /\ pc' = [pc EXCEPT ![t] = Blocked]
    /\ UNCHANGED <<table, mu, locals, snap, minted, old, test, boot>>

\* The batches of the progress runs: none, one string, two strings, one
\* string twice.  Whether a call returns does not depend on which strings
\* it is given beyond the number of turns of its loop.
LiveBatches == {<<>>, <<<<97>>>>, <<<<97>>, <<65>>>>, <<<<97>>, <<97>>>>}

\* Goroutine t enters an operation: st.Lock() succeeds.
Enter(t) ==
    \/ \E s \in Strings : NewEq_Lock(t, s)
    \/ \E ss \in LiveBatches : NewEqMulti_Lock(t, ss)
    \/ \E k \in Handles : toString_Lock(t, k)
    \/ ForgetAllEqs_Lock(t)

\* A parked goroutine t gets the mutex and enters its operation.
Acquire(t) == pc[t] = Blocked /\ Enter(t)

\* A step of goroutine t inside a critical section, its release included.
Section(t) ==
    \/ assignSymbol_lookup(t)
    \/ assignSymbol_append(t)
    \/ assignSymbol_insert(t)
    \/ NewEq_Unlock(t)
    \/ NewEqMulti_next(t)
    \/ NewEqMulti_Unlock(t)
    \/ toString_read(t)
    \/ toString_Unlock(t)
    \/ forgetAll_forward(t)
    \/ forgetAll_reverse(t)
    \/ ForgetAllEqs_Unlock(t)

NextLive ==
    \E t \in Threads :
        \/ Park(t)
        \/ Enter(t)
        \/ Section(t)

SpecLive ==
    /\ Init
    /\ [][NextLive]_vars
    /\ \A t \in Threads : WF_vars(Section(t)) /\ SF_vars(Acquire(t))

----------------------------------------------------------------------------
(* TestEqMarshalJSON / TestEqMarshalGob: a slice of Eqs is marshalled and  *)
(* unmarshalled, with or without a ForgetAllEqs in between, while other    *)
(* goroutines intern strings.  An Eq is marshalled as its String() and     *)
(* unmarshalled by NewEq, element by element; every call runs from taking  *)
(* the mutex to releasing it in one step.                                  *)

Tester == 1

\* The whole of ForgetAllEqs, by the test goroutine.
ForgetAllEqsAlone ==
    /\ mu = NoThread
    /\ forward' = EmptyForward
    /\ reverse' = FreshReverse
    /\ old' \in Stale(minted, old)
    /\ minted' = <<>>

\* intern.ForgetAllEqs()
TestEqMarshal_ForgetAllEqs ==
    /\ test.stage = "start"
    /\ ForgetAllEqsAlone
    /\ test' = [test EXCEPT !.stage = "forgotten"]
    /\ UNCHANGED <<mu, pc, locals, snap, boot>>

\* iSyms := intern.NewEqMulti(ozChars)
TestEqMarshal_NewEqMulti(ss) ==
    /\ test.stage = "forgotten"
    /\ mu = NoThread
    /\ LET r == NewEqMultiAlone(forward, reverse, ss)
       IN  /\ forward' = r.forward
           /\ reverse' = r.reverse
           /\ IF r.err # "nil"
              THEN /\ test' = [test EXCEPT !.stage = "panicked"]
                   /\ minted' = minted
              ELSE /\ test' = [test EXCEPT !.stage = "interned", !.ozChars = ss, !.iSyms = r.syms]
                   /\ minted' = MintAll(minted, ss, r.syms)
    /\ UNCHANGED <<mu, pc, locals, snap, old, boot>>

\* b, err := json.MarshalIndent(iSyms, ...): String() of the next element.
TestEqMarshal_Marshal ==
    /\ test.stage = "interned"
    /\ mu = NoThread
    /\ IF Len(test.b) < Len(test.iSyms)
       THEN LET r == toString(reverse, test.iSyms[Len(test.b) + 1])
            IN  IF r.panic
                THEN test' = [test EXCEPT !.stage = "panicked"]
                ELSE test' = [test EXCEPT !.b = Append(test.b, r.str)]
       ELSE test' = [test EXCEPT !.stage = "marshalled"]
    /\ UNCHANGED <<table, mu, pc, locals, snap, minted, old, boot>>

\* r == 0: the mapping is kept.
TestEqMarshal_NoForget ==
    /\ test.stage = "marshalled"
    /\ test' = [test EXCEPT !.stage = "ready"]
    /\ UNCHANGED <<table, mu, pc, locals, snap, minted, old, boot>>

\* r == 1: intern.ForgetAllEqs()
TestEqMarshal_Forget ==
    /\ test.stage = "marshalled"
    /\ ForgetAllEqsAlone
    /\ test' = [test EXCEPT !.stage = "ready", !.forgot = TRUE]
    /\ UNCHANGED <<mu, pc, locals, snap, boot>>

\* err = json.Unmarshal(b, &oSyms): NewEq of the next element.
TestEqMarshal_Unmarshal ==
    /\ test.stage = "ready"
    /\ mu = NoThread
    /\ IF Len(test.oSyms) < Len(test.b)
       THEN LET s == test.b[Len(test.oSyms) + 1]
                 r == NewEqAlone(forward, reverse, s)
            IN  /\ forward' = r.forward
                /\ reverse' = r.reverse
                /\ IF r.result.panic
                   THEN /\ test' = [test EXCEPT !.stage = "panicked"]
                        /\ minted' = minted
                   ELSE /\ test' = [test EXCEPT !.oSyms = Append(test.oSyms, r.result.eq)]
                        /\ minted' = Mint(minted, s, r.result.eq)
       ELSE /\ test' = [test EXCEPT !.stage = "unmarshalled"]
            /\ UNCHANGED <<table, minted>>
    /\ UNCHANGED <<mu, pc, locals, snap, old, boot>>

\* for i, s := range ozChars { if s != oSyms[i].String() { t.Fatalf(...) } }
TestEqMarshal_Check ==
    /\ test.stage = "unmarshalled"
    /\ mu = NoThread
    /\ IF test.checked < Len(test.ozChars)
       THEN IF \/ test.checked + 1 > Len(test.oSyms)
               \/ toString(reverse, test.oSyms[test.checked + 1]).panic
            THEN test' = [test EXCEPT !.stage = "panicked"]
            ELSE IF toString(reverse, test.oSyms[test.checked + 1]).str
                        # test.ozChars[test.checked + 1]
                 THEN test' = [test EXCEPT !.stage = "failed"]
                 ELSE test' = [test EXCEPT !.checked = test.checked + 1]
       ELSE test' = [test EXCEPT !.stage = "passed"]
    /\ UNCHANGED <<table, mu, pc, locals, snap, minted, old, boot>>

\* Another goroutine's NewEq(s).
Other_NewEq(t, s) ==
    /\ t # Tester
    /\ mu = NoThread
    /\ LET r == NewEqAlone(forward, reverse, s)
       IN  /\ forward' = r.forward
           /\ reverse' = r.reverse
           /\ minted' = (IF r.result.panic THEN minted ELSE Mint(minted, s, r.result.eq))
    /\ UNCHANGED <<mu, pc, locals, snap, old, test, boot>>

NextCodec ==
    \/ TestEqMarshal_ForgetAllEqs
    \/ \E ss \in Batches : TestEqMarshal_NewEqMulti(ss)
    \/ TestEqMarshal_Marshal
    \/ TestEqMarshal_NoForget
    \/ TestEqMarshal_Forget
    \/ TestEqMarshal_Unmarshal
    \/ TestEqMarshal_Check
    \/ \E t \in Threads : \E s \in Strings : Other_NewEq(t, s)

SpecCodec == Init /\ [][NextCodec]_vars

----------------------------------------------------------------------------
(* The claims.  The result of a call is visible at the position where the  *)
(* call has evaluated it and is about to release the mutex.                *)

Returning(t, o) == pc[t] = Pos(o, IF o = "NewEq" THEN "assignSymbol_done" ELSE "return")

\* C1: within one epoch, the handles returned for two strings are equal if
\* and only if the strings are byte-exactly equal (strings that differ only
\* in letter case get different handles).
Canonicalization ==
    \A p, q \in Range(minted) : (p[2] = q[2]) <=> (p[1] = q[1])

\* A repeated string is being returned its handle while a string that
\* differs from it only in case holds another one.
CanonicalizationWitness ==
    \E t \in Threads :
        /\ Returning(t, "NewEq")
        /\ <<str[t], sym[t]>> \in Range(minted)
        /\ \E q \in Range(minted) :
              q[1] # str[t] /\ ToLower(q[1]) = ToLower(str[t]) /\ q[2] # sym[t]

\* C2: a handle returned by NewEq(s) or NewEqMulti in the current epoch
\* resolves, without a panic, to exactly s.
RoundTrip ==
    \A t \in Threads :
        Returning(t, "String") =>
            \A p \in Range(minted) :
                p[2] = sym[t] => err[t] = "nil" /\ str[t] = p[1]

\* The first handle of the epoch is resolved after two more strings were
\* interned behind it, in an epoch that follows a ForgetAllEqs.
RoundTripWitness ==
    \E t \in Threads :
        /\ Returning(t, "String")
        /\ Len(minted) >= 3
        /\ sym[t] = minted[1][2]
        /\ str[t] = minted[1][1]
        /\ old # {}

\* C3: at most one handle is ever created for a string: all calls for it
\* return one handle, and the reverse index holds it in one slot only.
OneHandlePerString ==
    /\ \A p, q \in Range(minted) : p[1] = q[1] => p[2] = q[2]
    /\ \A i, j \in 2..Len(reverse) : reverse[i] = reverse[j] => i = j

\* A second call for the only interned string is returning the handle of
\* the first call, and the reverse index has the one slot.
OneHandlePerStringWitness ==
    \E t \in Threads :
        /\ Returning(t, "NewEq")
        /\ minted = <<(<<str[t], sym[t]>>)>>
        /\ Len(reverse) = 2

\* C4: String of the zero handle panics in every state.
ZeroHandleInvalid ==
    \A t \in Threads :
        Returning(t, "String") /\ sym[t] = 0 => err[t] = "invalid"

\* The zero handle is resolved on a table that holds strings, after a
\* ForgetAllEqs.
ZeroHandleInvalidWitness ==
    \E t \in Threads :
        /\ Returning(t, "String")
        /\ sym[t] = 0
        /\ err[t] = "invalid"
        /\ Len(reverse) > 1
        /\ old # {}

\* C5 as stated: resolving a handle obtained before a ForgetAllEqs panics or
\* returns a string other than the one it was obtained for.
StaleNeverResolves ==
    \A t \in Threads :
        Returning(t, "String") =>
            \A p \in old :
                p[2] = sym[t] => err[t] = "invalid" \/ str[t] # p[1]

\* C5 amended: resolving a handle obtained before a ForgetAllEqs panics
\* exactly when its value has not been minted again in the current epoch,
\* and otherwise returns the string the value was minted for in the current
\* epoch; that is the original string only if the original pair was minted
\* again.
StaleResolvesCurrentEpoch ==
    \A t \in Threads :
        Returning(t, "String") =>
            \A p \in old :
                p[2] = sym[t] =>
                    /\ err[t] = "invalid" <=> ~ \E q \in Range(minted) : q[2] = sym[t]
                    /\ err[t] = "nil" => <<str[t], sym[t]>> \in Range(minted)
                    /\ err[t] = "nil" /\ str[t] = p[1] => p \in Range(minted)

\* An old handle resolves to a string of the current epoch that is not the
\* string it was obtained for.
StaleResolvesCurrentEpochWitness ==
    \E t \in Threads :
        /\ Returning(t, "String")
        /\ err[t] = "nil"
        /\ \E p \in old : p[2] = sym[t] /\ str[t] # p[1]

\* C6: from a ForgetAllEqs until the next string is interned, String panics
\* for every handle value.
ResolveFailsAfterReset ==
    \A t \in Threads :
        Returning(t, "String") /\ minted = <<>> => err[t] = "invalid"

\* A handle minted before the ForgetAllEqs is resolved before anything is
\* interned again.
ResolveFailsAfterResetWitness ==
    \E t \in Threads :
        /\ Returning(t, "String")
        /\ minted = <<>>
        /\ \E p \in old : p[2] = sym[t]
        /\ err[t] = "invalid"

\* C7: NewEqMulti(strs) returns, for every table and every strs, as many
\* handles as strs has strings, the i-th being what NewEq(strs[i]) returns
\* when NewEq is called once per string in order from the same table, and
\* both leave the same table.
BatchEquivalence ==
    \A t \in Threads :
        Returning(t, "NewEqMulti") =>
            LET each == NewEqEach(snap.forward, snap.reverse, strs[t])
            IN  /\ err[t] = "nil"
                /\ Len(syms[t]) = Len(strs[t])
                /\ Len(each.results) = Len(strs[t])
                /\ \A i \in DOMAIN strs[t] :
                      /\ ~ each.results[i].panic
                      /\ syms[t][i] = each.results[i].eq
                /\ forward = each.forward
                /\ reverse = each.reverse

\* A batch of a registered string, a new string and the new string again
\* is about to return.
BatchEquivalenceWitness ==
    \E t \in Threads :
        /\ Returning(t, "NewEqMulti")
        /\ Len(strs[t]) = 3
        /\ strs[t][1] \in DOMAIN snap.forward
        /\ strs[t][2] \notin DOMAIN snap.forward
        /\ strs[t][3] = strs[t][2]
        /\ strs[t][1] # strs[t][2]
        /\ syms[t][3] = syms[t][2]

\* C8: handles marshalled element-wise by String and unmarshalled
\* element-wise by NewEq come back in the same number and order, resolve to
\* the original strings and share a handle exactly where the originals did,
\* with or without a ForgetAllEqs between the two.
PortableRoundTrip ==
    /\ test.stage \notin {"failed", "panicked"}
    /\ test.stage \in {"marshalled", "ready"} => test.b = test.ozChars
    /\ test.stage \in {"unmarshalled", "passed"} =>
          /\ Len(test.oSyms) = Len(test.iSyms)
          /\ Len(test.oSyms) = Len(test.ozChars)
          /\ \A i \in DOMAIN test.oSyms :
                /\ ~ toString(reverse, test.oSyms[i]).panic
                /\ toString(reverse, test.oSyms[i]).str = test.ozChars[i]
          /\ \A i, j \in DOMAIN test.oSyms :
                (test.oSyms[i] = test.oSyms[j]) <=> (test.iSyms[i] = test.iSyms[j])

\* The slice for "a", another string, "a" again went through a
\* ForgetAllEqs between marshalling and unmarshalling and came back with
\* other handle values, the first and the third still shared.
PortableRoundTripWitness ==
    /\ test.stage = "passed"
    /\ test.forgot
    /\ Len(test.ozChars) = 3
    /\ test.ozChars[1] = test.ozChars[3]
    /\ test.ozChars[1] # test.ozChars[2]
    /\ test.iSyms[1] = test.iSyms[3]
    /\ test.oSyms[1] = test.oSyms[3]
    /\ test.oSyms # test.iSyms

\* The same slice came back without a ForgetAllEqs in between.
PortableRoundTripKept ==
    /\ test.stage = "passed"
    /\ ~ test.forgot
    /\ Len(test.ozChars) = 3
    /\ test.ozChars[1] = test.ozChars[3]
    /\ test.oSyms = test.iSyms

\* C9: in every epoch the k-th distinct string interned has handle k, and a
\* repeated string adds no pair.
DenseFirstSeen ==
    \A i \in DOMAIN minted :
        /\ minted[i][2] = i
        /\ \A j \in DOMAIN minted : minted[i][1] = minted[j][1] => i = j

\* After a ForgetAllEqs handle 1 belongs to another string than before, and
\* String of handle 2 panics.
DenseFirstSeenWitness ==
    \E t \in Threads :
        /\ Returning(t, "String")
        /\ sym[t] = 2
        /\ err[t] = "invalid"
        /\ Len(minted) = 1
        /\ \E p \in old : p[2] = minted[1][2] /\ p[1] # minted[1][1]

\* C10: NewEq never panics and never returns the zero handle; the handle it
\* returns resolves to the string given, the empty string included.
AssignNeverFails ==
    \A t \in Threads :
        Returning(t, "NewEq") =>
            /\ ~ NewEq_result(err[t], sym[t]).panic
            /\ NewEq_result(err[t], sym[t]).eq >= 1
            /\ ~ toString(reverse, NewEq_result(err[t], sym[t]).eq).panic
            /\ toString(reverse, NewEq_result(err[t], sym[t]).eq).str = str[t]

\* The empty string is being returned a handle that is not the first of a
\* table that went through a ForgetAllEqs.
AssignNeverFailsWitness ==
    \E t \in Threads :
        /\ Returning(t, "NewEq")
        /\ str[t] = <<>>
        /\ str[t] = Placeholder
        /\ sym[t] >= 2
        /\ old # {}

----------------------------------------------------------------------------
(* Claims on the indices themselves. *)

\* forward[s] = h exactly when reverse[h] = s, for 1 <= h < len(reverse);
\* no forward entry is 0 or beyond the reverse index; no two strings share
\* a symbol.
IndexConsistent(fwd, rev) ==
    /\ \A s \in DOMAIN fwd : fwd[s] >= 1 /\ fwd[s] < len(rev) /\ At(rev, fwd[s]) = s
    /\ \A k \in 1..(len(rev) - 1) : At(rev, k) \in DOMAIN fwd /\ fwd[At(rev, k)] = k
    /\ \A s1, s2 \in DOMAIN fwd : fwd[s1] = fwd[s2] => s1 = s2

\* Goroutine t is between the two writes of assignSymbol or of forgetAll.
Updating(t) == pc[t].at \in {"assignSymbol_insert", "forgetAll_reverse"}

\* C11: whenever no call is between its two index writes (before and after
\* every call, between the strings of a batch, at every lookup and read),
\* the forward and the reverse index are mutually consistent.
IndexConsistency ==
    (\A t \in Threads : ~ Updating(t)) => IndexConsistent(forward, reverse)

\* A String call reads a table of three strings built after a ForgetAllEqs.
IndexConsistencyWitness ==
    \E t \in Threads :
        /\ pc[t] = Pos("String", "toString")
        /\ Len(reverse) = 4
        /\ DOMAIN forward = Strings
        /\ old # {}

\* The distinct strings returned a handle since the last ForgetAllEqs.
Interned == {p[1] : p \in Range(minted)}

\* C12: between calls, len(reverse) is 1 plus the number of distinct
\* strings interned since the last ForgetAllEqs (or since init).
SizeInvariant ==
    mu = NoThread => len(reverse) = 1 + Cardinality(Interned)

\* Two distinct strings are interned in an epoch that follows a
\* ForgetAllEqs, and no call is running.
SizeInvariantWitness ==
    /\ mu = NoThread
    /\ \A t \in Threads : pc[t] = Idle
    /\ Cardinality(Interned) = 2
    /\ len(reverse) = 3
    /\ old # {}

\* A step of ForgetAllEqs.
ResetStep == \E t \in Threads : pc[t].op = "ForgetAllEqs" /\ pc'[t] # pc[t]

\* C13: a step other than one of ForgetAllEqs keeps every assigned handle:
\* if forward[s] = h and reverse[h] = s before it, so they are after it.
HandleStability ==
    [][~ ResetStep =>
          \A s \in DOMAIN forward :
              (forward[s] >= 1 /\ forward[s] < len(reverse) /\ At(reverse, forward[s]) = s)
              => /\ s \in DOMAIN forward'
                 /\ forward'[s] = forward[s]
                 /\ forward[s] < len(reverse')
                 /\ At(reverse', forward[s]) = s]_vars

\* The first handle of the epoch is still bound to its string while a call
\* writes the third string into the indices.
HandleStabilityWitness ==
    \E t \in Threads :
        /\ pc[t].at = "assignSymbol_insert"
        /\ Len(minted) = 2
        /\ Len(reverse) = 4
        /\ forward[minted[1][1]] = 1
        /\ At(reverse, 1) = minted[1][1]

\* C14: String panics exactly when h == 0 or h >= len(reverse), and
\* otherwise returns reverse[h].
ResolveExact ==
    \A t \in Threads :
        Returning(t, "String") =>
            /\ err[t] = "invalid" <=> (sym[t] = 0 \/ sym[t] >= Len(reverse))
            /\ err[t] = "nil" => str[t] = reverse[sym[t] + 1]
            /\ err[t] \in {"nil", "invalid"}

\* h = len(reverse) panics on a table that holds strings.
ResolveExactWitness ==
    \E t \in Threads :
        /\ Returning(t, "String")
        /\ Len(reverse) > 1
        /\ sym[t] = Len(reverse)
        /\ err[t] = "invalid"

\* h = len(reverse) - 1 succeeds on a table that holds strings.
ResolveExactLast ==
    \E t \in Threads :
        /\ Returning(t, "String")
        /\ Len(reverse) > 1
        /\ sym[t] = Len(reverse) - 1
        /\ err[t] = "nil"

\* C15: a step of a String call, and a step of a NewEq call whose string is
\* in the forward index, leave both indices unchanged.
FrameStep(t) ==
    /\ pc'[t] # pc[t]
    /\ \/ pc[t].op = "String"
       \/ pc'[t].op = "String"
       \/ pc[t].op = "NewEq" /\ str[t] \in DOMAIN forward
       \/ pc'[t].op = "NewEq" /\ str'[t] \in DOMAIN forward

Frame ==
    [][(\E t \in Threads : FrameStep(t)) => forward' = forward /\ reverse' = reverse]_vars

\* A NewEq of an interned string is about to return, and the reverse index
\* still has one slot per interned string.
FrameWitness ==
    \E t \in Threads :
        /\ Returning(t, "NewEq")
        /\ str[t] \in Interned
        /\ Cardinality(Interned) = 2
        /\ Len(reverse) = 3

\* C16: at most one call is inside its critical section, it is the holder
\* of the mutex, and a call that looks at the indices finds them mutually
\* consistent.
MutualExclusion ==
    /\ \A t1, t2 \in Threads : ~ Entering(t1) /\ ~ Entering(t2) => t1 = t2
    /\ \A t \in Threads : ~ Entering(t) => mu = t
    /\ \A t \in Threads :
          pc[t].at \in {"assignSymbol", "toString"} => IndexConsistent(forward, reverse)

\* The reverse index has a string the forward index lacks, and the only
\* goroutine in a call is the holder of the mutex that is writing it.
MutualExclusionWitness ==
    \E t \in Threads :
        /\ pc[t] = Pos("NewEq", "assignSymbol_insert")
        /\ mu = t
        /\ ~ IndexConsistent(forward, reverse)
        /\ \A u \in Threads \ {t} : pc[u] = Idle

\* The strings of ss that fwd lacks, in the order of their first occurrence.
RECURSIVE Unseen(_, _)
Unseen(fwd, ss) ==
    IF ss = <<>> THEN <<>>
    ELSE LET front == Unseen(fwd, SubSeq(ss, 1, Len(ss) - 1))
             last == ss[Len(ss)]
         IN  IF last \in DOMAIN fwd \/ last \in Range(front) THEN front
             ELSE Append(front, last)

\* C18: nothing of another goroutine takes effect inside a NewEqMulti: the
\* strings the batch saw first get consecutive handles in input order,
\* right after the table the batch found, and every handle of the batch
\* resolves to its string in the table the batch leaves.
BatchAtomicity ==
    \A t \in Threads :
        Returning(t, "NewEqMulti") =>
            LET new == Unseen(snap.forward, strs[t])
            IN  /\ reverse = snap.reverse \o new
                /\ \A i \in DOMAIN new : forward[new[i]] = len(snap.reverse) + i - 1
                /\ \A s \in DOMAIN snap.forward :
                      s \in DOMAIN forward /\ forward[s] = snap.forward[s]
                /\ Len(syms[t]) = Len(strs[t])
                /\ \A i \in DOMAIN syms[t] :
                      /\ ValidHandle(reverse, syms[t][i])
                      /\ At(reverse, syms[t][i]) = strs[t][i]
                      /\ forward[strs[t][i]] = syms[t][i]

\* A batch of two new strings and a registered one returns consecutive
\* handles for the new ones, in an epoch that follows a ForgetAllEqs.
BatchAtomicityWitness ==
    \E t \in Threads :
        /\ Returning(t, "NewEqMulti")
        /\ Len(strs[t]) = 3
        /\ Len(Unseen(snap.forward, strs[t])) = 2
        /\ Len(snap.reverse) = 2
        /\ syms[t][1] = 2
        /\ syms[t][2] = 1
        /\ syms[t][3] = 3
        /\ old # {}

\* A ForgetAllEqs has done its forgetAll and is about to release the mutex.
ResetDone(t) == pc[t] = Pos("ForgetAllEqs", "forgetAll_done")

\* C19: ForgetAllEqs leaves the indices exactly as init left them at
\* process start, whatever was interned before and however many
\* ForgetAllEqs came before it.
ResetRestoresInit ==
    \A t \in Threads :
        ResetDone(t) => forward = boot.forward /\ reverse = boot.reverse

\* A ForgetAllEqs of an epoch in which strings were interned, itself
\* following an earlier ForgetAllEqs, is about to return.
ResetRestoresInitWitness ==
    \E t \in Threads :
        /\ ResetDone(t)
        /\ Len(minted) >= 2
        /\ old # {}

\* A ForgetAllEqs of an epoch in which nothing was interned, right after
\* another ForgetAllEqs, is about to return.
ResetTwice ==
    \E t \in Threads :
        /\ ResetDone(t)
        /\ minted = <<>>
        /\ old # {}

\* C17: under fair scheduling every call, parked in Lock() or inside its
\* critical section, eventually returns, and a held mutex is eventually
\* released, whichever operation holds it and whether it panics or not.
NoBlocking ==
    /\ \A t \in Threads : (pc[t] # Idle) ~> (pc[t] = Idle)
    /\ (mu # NoThread) ~> (mu = NoThread)

\* A goroutine is parked in Lock() while a String call that panics with
\* an invalid handle still holds the mutex.
NoBlockingWitness ==
    \E t, u \in Threads :
        /\ pc[t] = Blocked
        /\ pc[u] = Pos("String", "return")
        /\ err[u] = "invalid"
        /\ mu = u

====
